---- MODULE Spec2Model ----
(***************************************************************************)
(* MindNest backend (01_Backend_AI): the assess / history / mr_sync        *)
(* endpoints of main.py over the store of database.py and the expression   *)
(* tables of emotion_mapping.py.                                           *)
(*                                                                         *)
(* Scores are fixed-point numbers in thousandths: 3500 is 3.5, 1 is the    *)
(* mock sentinel 0.001.  Texts are sequences of words; the Chinese words   *)
(* of the source are written in pinyin.  A Python dict is a function whose *)
(* DOMAIN is its set of keys.  Timestamps (datetime.now) are readings of a *)
(* clock that advances between any two readings.                           *)
(***************************************************************************)
EXTENDS Integers, Sequences, FiniteSets, TLC

VARIABLES users, assessments, now, req, last, MODELSCOPE_API_KEY

vars == <<users, assessments, now, req, last, MODELSCOPE_API_KEY>>

\* USE_MOCK_MODE = False if MODELSCOPE_API_KEY else True
USE_MOCK_MODE == MODELSCOPE_API_KEY = ""

\* the value of the environment variable of a configured deployment
ConfiguredKey == "ms-key"

\* Python's None (Optional fields, dict.get default)
None == "None"

(***************************************************************************)
(* Bounds                                                                  *)
(***************************************************************************)
\* stored assessment rows in the service specification
MaxAssessments == 2
\* stored assessment rows in the trend specification
MaxHistory == 7

(***************************************************************************)
(* main.py configuration                                                   *)
(***************************************************************************)
TASK_POOL ==
  << "tidy your desk 5 min", "walk outside 10 min", "message a friend",
     "listen to a new song", "try a new recipe", "creative activity",
     "mindfulness 5 min", "contact a friend", "volunteer",
     "join an interest group", "visit a museum or park", "watch a film with friends",
     "jog or brisk walk 15 min", "go into nature", "try a new sport",
     "cycle or skate", "stretching or yoga", "clear a drawer",
     "make the bed every morning", "take a hot bath" >>

NUTRIENT_CONFIG ==
  [ breathing             |-> [type |-> "sunlight",   amount |-> 10],
    altruistic            |-> [type |-> "water",      amount |-> 15],
    behavioral_activation |-> [type |-> "fertilizer", amount |-> 25] ]

HEALING_SUITE_CONFIG ==
  [ light    |-> <<"breathing">>,
    moderate |-> <<"breathing", "altruistic">>,
    severe   |-> <<"breathing", "altruistic", "behavioral_activation">> ]

\* score <= 3.5
LightMax == 3500
\* score <= 7
ModerateMax == 7000
\* AssessmentResponse.anxiety_score: ge=0.0
ScoreMin == 0
\* AssessmentResponse.anxiety_score: le=10.0
ScoreMax == 10000
\* mock_ai_assessment: "anxiety_score": 0.001
MockScore == 1

MOCK_FLAG == "[Mock mode] AI cloud not connected, using local rule engine."

POSITIVE_WORDS == {"kaixin", "kuaile", "gaoxing", "yukuai", "bucuo", "chongshi", "manyi"}
NEGATIVE_WORDS == {"jiaolv", "yali", "nanguo", "shangxin", "danxin", "haipa", "tongku"}

(***************************************************************************)
(* emotion_mapping.py                                                      *)
(***************************************************************************)
\* the range table in dict (insertion) order, bounds in thousandths
ANXIETY_BASED_EMOTIONS ==
  << [min |-> 9000, max |-> 10100, file |-> "cpu_burned.png", emotion |-> "extremely_stressed",
      description |-> <<"jidu jiaolv, CPU guozai">>],
     [min |-> 8000, max |-> 9000, file |-> "sad.png", emotion |-> "sad",
      description |-> <<"beishang nanguo, qingxu diluo">>],
     [min |-> 7000, max |-> 8000, file |-> "question.png", emotion |-> "confused",
      description |-> <<"kunhuo danyou, xuyao zhichi">>],
     [min |-> 5500, max |-> 7000, file |-> "thinking.png", emotion |-> "thinking",
      description |-> <<"sikao zhongli, qingwei mimang">>],
     [min |-> 4000, max |-> 5500, file |-> "ok.png", emotion |-> "approval",
      description |-> <<"hai keyi, jiben wending">>],
     [min |-> 2000, max |-> 4000, file |-> "happy.png", emotion |-> "happy",
      description |-> <<"kaixin yukuai, zhuangtai lianghao">>],
     [min |-> 0, max |-> 2000, file |-> "celebrate.png", emotion |-> "celebrating",
      description |-> <<"feichang kaixin, zhide qingzhu">>] >>

AI_EMOTION_LABELS ==
  [ greeting |-> "welcome.png", approval |-> "ok.png", rejection |-> "no.png",
    happy |-> "happy.png", sad |-> "sad.png", angry |-> "angry.png",
    surprised |-> "surprise.png", celebrating |-> "celebrate.png",
    encouraging |-> "cheer.png", grateful |-> "thanks.png",
    thinking |-> "thinking.png", confused |-> "question.png",
    pleading |-> "please.png", relaxing |-> "slacking.png",
    meditating |-> "meditation.png", sleepy |-> "goodnight.png",
    eating |-> "eating.png", rushing |-> "deadline.png", lucky |-> "lucky.png",
    wealthy |-> "rich.png", loving |-> "love.png", approving |-> "like.png",
    playful |-> "naughty.png", extremely_stressed |-> "cpu_burned.png" ]

\* the information of table entry i
EmotionInfo(i) ==
  [file        |-> ANXIETY_BASED_EMOTIONS[i].file,
   emotion     |-> ANXIETY_BASED_EMOTIONS[i].emotion,
   description |-> ANXIETY_BASED_EMOTIONS[i].description]

\* the neutral default of get_emotion_from_anxiety_score
DefaultEmotion ==
  [file |-> "thinking.png", emotion |-> "thinking", description |-> <<"zhongli sikao">>]

RECURSIVE ScanRanges_exclusive(_, _)
\* ScanRanges with "min_val < score < max_val"
ScanRanges_exclusive(score, i) ==
  IF i > Len(ANXIETY_BASED_EMOTIONS)
    THEN DefaultEmotion
    ELSE IF ANXIETY_BASED_EMOTIONS[i].min < score /\ score < ANXIETY_BASED_EMOTIONS[i].max
           THEN EmotionInfo(i)
           ELSE ScanRanges_exclusive(score, i + 1)

RECURSIVE ScanRanges(_, _)
\* the for loop of get_emotion_from_anxiety_score from table entry i on
ScanRanges(score, i) ==
  IF i > Len(ANXIETY_BASED_EMOTIONS)
    THEN DefaultEmotion
    ELSE IF ANXIETY_BASED_EMOTIONS[i].min <= score /\ score < ANXIETY_BASED_EMOTIONS[i].max
           THEN EmotionInfo(i)
           ELSE ScanRanges(score, i + 1)

get_emotion_from_anxiety_score(score) == ScanRanges(score, 1)

get_emotion_from_ai_label(ai_emotion) ==
  IF ai_emotion \in DOMAIN AI_EMOTION_LABELS
    THEN [file |-> AI_EMOTION_LABELS[ai_emotion], emotion |-> ai_emotion,
          description |-> <<"AI shibie: ", ai_emotion>>]
    ELSE [file |-> "thinking.png", emotion |-> "thinking",
          description |-> <<"moren biaoqing">>]

get_nomi_expression(anxiety_score, ai_emotion) ==
  IF ai_emotion # None /\ ai_emotion # ""
       /\ get_emotion_from_ai_label(ai_emotion).emotion # "thinking"
    THEN get_emotion_from_ai_label(ai_emotion)
    ELSE get_emotion_from_anxiety_score(anxiety_score)

(***************************************************************************)
(* main.py: healing suite                                                  *)
(***************************************************************************)
\* an empty dict
EmptyDict == [k \in {} |-> 0]

RECURSIVE NutrientLoop_overwrite(_, _, _)
\* NutrientLoop with "total_nutrients = nutrient_amount" for "+="
NutrientLoop_overwrite(healing_suite, i, acc) ==
  IF i > Len(healing_suite)
    THEN acc
    ELSE LET nutrient_info == NUTRIENT_CONFIG[healing_suite[i]]
         IN  NutrientLoop_overwrite(healing_suite, i + 1,
               [nutrients |-> (nutrient_info.type :> nutrient_info.amount) @@ acc.nutrients,
                total     |-> nutrient_info.amount])

RECURSIVE NutrientLoop(_, _, _)
\* the loop "for mode in healing_suite" from position i on, acc = [nutrients, total]
NutrientLoop(healing_suite, i, acc) ==
  IF i > Len(healing_suite)
    THEN acc
    ELSE LET nutrient_info == NUTRIENT_CONFIG[healing_suite[i]]
         IN  NutrientLoop(healing_suite, i + 1,
               [nutrients |-> (nutrient_info.type :> nutrient_info.amount) @@ acc.nutrients,
                total     |-> acc.total + nutrient_info.amount])

\* LevelOf with strict comparisons at the thresholds
LevelOf_strict(score) ==
  IF score < LightMax THEN "light"
  ELSE IF LightMax <= score /\ score < ModerateMax THEN "moderate"
  ELSE "severe"

\* the level chosen by the if / elif / else of determine_healing_suite
LevelOf(score) ==
  IF score <= LightMax THEN "light"
  ELSE IF LightMax < score /\ score <= ModerateMax THEN "moderate"
  ELSE "severe"

\* TaskFor with a task drawn in the moderate branch too
TaskFor_moderate(level, choice) ==
  IF level \in {"moderate", "severe"} THEN TASK_POOL[choice] ELSE None

\* the task of the branch taken: random.choice(TASK_POOL) or None
TaskFor(level, choice) ==
  IF level = "severe" THEN TASK_POOL[choice] ELSE None

\* determine_healing_suite(score); choice is the index random.choice picks
determine_healing_suite(score, choice) ==
  LET level == LevelOf(score)
      task == TaskFor(level, choice)
      healing_suite == HEALING_SUITE_CONFIG[level]
      fed == NutrientLoop(healing_suite, 1, [nutrients |-> EmptyDict, total |-> 0])
  IN  [ level           |-> level,
        healing_suite   |-> healing_suite,
        nutrients       |-> fed.nutrients,
        total_nutrients |-> fed.total,
        message         |-> IF level = "light" THEN <<"breathe together">>
                            ELSE IF level = "moderate" THEN <<"breathe, then comfort Nomi">>
                            ELSE <<"breathe, comfort Nomi, do the task:", task>>,
        task            |-> task,
        nomi_state      |-> IF level = "light" THEN None ELSE "worried",
        sequence        |-> IF level = "light" THEN <<"breathing">>
                            ELSE IF level = "moderate"
                              THEN <<"breathing_first", "then_altruistic">>
                            ELSE <<"breathing_first", "then_altruistic", "finally_task">> ]

\* any(word in text for word in words)
HasAny(text, words) == \E i \in 1..Len(text) : text[i] \in words

mock_ai_assessment(text) ==
  LET emotion_hint == IF HasAny(text, POSITIVE_WORDS) THEN "positive"
                      ELSE IF HasAny(text, NEGATIVE_WORDS) THEN "negative"
                      ELSE "neutral"
  IN  [ anxiety_score |-> MockScore,
        reason        |-> <<MOCK_FLAG, emotion_hint>>,
        emotion       |-> "neutral" ]

(***************************************************************************)
(* main.py: the external AI step                                           *)
(*                                                                         *)
(* What the chat-completion call does is the environment's choice `ai`:    *)
(*   [kind |-> "raise"]      the SDK raises (network, timeout, auth ...)   *)
(*   [kind |-> "text"]       the reply content is not JSON                 *)
(*   [kind |-> "json", type |-> "array",  members |-> <<>>]                *)
(*                           the reply is JSON but not an object           *)
(*   [kind |-> "json", type |-> "object", members |-> d]                   *)
(*                           the reply is the JSON object d                *)
(***************************************************************************)
call_qwen_api(combined_text, ai) ==
  IF ai.kind = "json"
    THEN [type |-> ai.type, members |-> ai.members]
    ELSE [type |-> "object", members |-> mock_ai_assessment(combined_text)]

(***************************************************************************)
(* database.py                                                             *)
(***************************************************************************)
\* json.dumps / json.loads of the healing_suite list and the nutrients dict
json_dumps(value) == [json_text_of |-> value]
json_loads(text) == text.json_text_of

\* create_user without the "if not user" test: the row is written again
create_user_always(db_users, user_id, clock) ==
  [u \in DOMAIN db_users \cup {user_id} |->
     IF u = user_id
       THEN [username |-> None, created_at |-> clock, last_active |-> clock]
       ELSE db_users[u]]

\* the row create_user adds when the user does not exist yet
create_user(db_users, user_id, clock) ==
  IF user_id \in DOMAIN db_users
    THEN db_users
    ELSE (user_id :> [username |-> None, created_at |-> clock, last_active |-> clock])
           @@ db_users

\* save_assessment called with nomi_state and anxiety_level interchanged
AssessmentRow_mixed(id, request, anxiety_score, healing_info, expression_info, ai_reasoning, clock) ==
  [ id                |-> id,
    user_id           |-> request.user_id,
    anxiety_score     |-> anxiety_score,
    anxiety_level     |-> healing_info.nomi_state,
    healing_suite     |-> json_dumps(healing_info.healing_suite),
    nutrients         |-> json_dumps(healing_info.nutrients),
    total_nutrients   |-> healing_info.total_nutrients,
    nomi_expression   |-> expression_info.file,
    nomi_emotion      |-> expression_info.emotion,
    nomi_state        |-> healing_info.level,
    task              |-> healing_info.task,
    diary_text        |-> request.diary_text,
    conversation_text |-> request.conversation_text,
    ai_reasoning      |-> ai_reasoning,
    created_at        |-> clock ]

\* the AssessmentHistory row save_assessment adds; id is the autoincrement key
AssessmentRow(id, request, anxiety_score, healing_info, expression_info, ai_reasoning, clock) ==
  [ id                |-> id,
    user_id           |-> request.user_id,
    anxiety_score     |-> anxiety_score,
    anxiety_level     |-> healing_info.level,
    healing_suite     |-> json_dumps(healing_info.healing_suite),
    nutrients         |-> json_dumps(healing_info.nutrients),
    total_nutrients   |-> healing_info.total_nutrients,
    nomi_expression   |-> expression_info.file,
    nomi_emotion      |-> expression_info.emotion,
    nomi_state        |-> healing_info.nomi_state,
    task              |-> healing_info.task,
    diary_text        |-> request.diary_text,
    conversation_text |-> request.conversation_text,
    ai_reasoning      |-> ai_reasoning,
    created_at        |-> clock ]

\* .filter(AssessmentHistory.user_id == user_id)
FilterUser(rows, user_id) == SelectSeq(rows, LAMBDA a : a.user_id = user_id)

RECURSIVE OrderByCreatedDesc_asc(_)
\* .order_by(AssessmentHistory.created_at) without desc(): oldest first
OrderByCreatedDesc_asc(rowset) ==
  IF rowset = {}
    THEN <<>>
    ELSE LET first == CHOOSE a \in rowset : \A b \in rowset : a.created_at <= b.created_at
         IN  <<first>> \o OrderByCreatedDesc_asc(rowset \ {first})

RECURSIVE OrderByCreatedDesc(_)
\* .order_by(AssessmentHistory.created_at.desc()): rows as a set, latest first
OrderByCreatedDesc(rowset) ==
  IF rowset = {}
    THEN <<>>
    ELSE LET first == CHOOSE a \in rowset : \A b \in rowset : b.created_at <= a.created_at
         IN  <<first>> \o OrderByCreatedDesc(rowset \ {first})

SeqToSet(s) == { s[i] : i \in 1..Len(s) }

\* the query of get_assessment_stats, get_user_history and mr_sync before limit/first
QueryUserDesc(rows, user_id) == OrderByCreatedDesc(SeqToSet(FilterUser(rows, user_id)))

RECURSIVE SumSeq(_)
SumSeq(s) == IF s = <<>> THEN 0 ELSE Head(s) + SumSeq(Tail(s))

\* Python slice s[a:b] (0-based, end exclusive)
Slice(s, a, b) == SubSeq(s, a + 1, IF b < Len(s) THEN b ELSE Len(s))

\* recent_avg < older_avg - 1.0  and  recent_avg > older_avg + 1.0, the averages
\* being sums over TrendWindow scores: compared after multiplying by TrendWindow
TrendWindow == 3
TrendMargin == 1000

\* get_assessment_stats comparing the two averages without the 1.0 margin
get_assessment_stats_nomargin(rows, user_id) ==
  LET found == QueryUserDesc(rows, user_id)
      scores == [i \in 1..Len(found) |-> found[i].anxiety_score]
      recent_sum == SumSeq(Slice(scores, 0, TrendWindow))
      older_sum == SumSeq(Slice(scores, TrendWindow, 2 * TrendWindow))
  IN  IF found = <<>>
        THEN [total_assessments |-> 0, trend |-> "no_data"]
        ELSE [total_assessments |-> Len(found),
              trend |-> IF Len(scores) >= 2 * TrendWindow
                          THEN IF recent_sum < older_sum THEN "improving"
                               ELSE IF recent_sum > older_sum THEN "worsening"
                               ELSE "stable"
                          ELSE "stable"]

get_assessment_stats(rows, user_id) ==
  LET found == QueryUserDesc(rows, user_id)
      scores == [i \in 1..Len(found) |-> found[i].anxiety_score]
      recent_sum == SumSeq(Slice(scores, 0, TrendWindow))
      older_sum == SumSeq(Slice(scores, TrendWindow, 2 * TrendWindow))
  IN  IF found = <<>>
        THEN [total_assessments |-> 0, trend |-> "no_data"]
        ELSE [total_assessments |-> Len(found),
              trend |-> IF Len(scores) >= 2 * TrendWindow
                          THEN IF recent_sum < older_sum - TrendWindow * TrendMargin
                                 THEN "improving"
                               ELSE IF recent_sum > older_sum + TrendWindow * TrendMargin
                                 THEN "worsening"
                               ELSE "stable"
                          ELSE "stable"]

\* get_user_history without .limit(limit)
get_user_history_unlimited(rows, user_id, limit) == QueryUserDesc(rows, user_id)

\* get_user_history: SQLite LIMIT n keeps n rows, a negative n keeps all
get_user_history(rows, user_id, limit) ==
  LET found == QueryUserDesc(rows, user_id)
  IN  IF limit < 0 THEN found ELSE Slice(found, 0, limit)

assessment_to_dict(a) ==
  [ id              |-> a.id,
    user_id         |-> a.user_id,
    anxiety_score   |-> a.anxiety_score,
    anxiety_level   |-> a.anxiety_level,
    healing_suite   |-> json_loads(a.healing_suite),
    nutrients       |-> json_loads(a.nutrients),
    total_nutrients |-> a.total_nutrients,
    nomi_expression |-> a.nomi_expression,
    nomi_emotion    |-> a.nomi_emotion,
    task            |-> a.task ]

(***************************************************************************)
(* Inputs                                                                  *)
(***************************************************************************)
UserIds == {"u1", "u2"}

\* AssessmentRequest bodies; the last one violates min_length=1
Requests ==
  { [user_id |-> "u1", diary_text |-> <<"jintian", "kaixin">>, conversation_text |-> <<"nihao">>],
    [user_id |-> "u2", diary_text |-> <<"jintian">>,           conversation_text |-> <<"nihao">>],
    [user_id |-> "u2", diary_text |-> <<>>,                    conversation_text |-> <<"nihao">>] }

\* what the chat-completion call does
AiReplies ==
  { [kind |-> "raise", type |-> "none",   members |-> <<>>],
    [kind |-> "text",  type |-> "none",   members |-> <<>>],
    [kind |-> "json",  type |-> "array",  members |-> <<>>],
    [kind |-> "json",  type |-> "object", members |-> [reason |-> <<"no score">>]],
    [kind |-> "json",  type |-> "object", members |-> [anxiety_score |-> 5000]],
    [kind |-> "json",  type |-> "object",
       members |-> [anxiety_score |-> 0 - 1, reason |-> <<"below range">>]],
    [kind |-> "json",  type |-> "object",
       members |-> [anxiety_score |-> 10001, reason |-> <<"above range">>, emotion |-> "sad"]],
    [kind |-> "json",  type |-> "object",
       members |-> [anxiety_score |-> 3500, reason |-> <<"calm">>, healing_path |-> "light"]],
    [kind |-> "json",  type |-> "object",
       members |-> [anxiety_score |-> 7000, reason |-> <<"uneasy">>, emotion |-> "sad",
                    healing_path |-> "severe"]],
    [kind |-> "json",  type |-> "object",
       members |-> [anxiety_score |-> 7001, reason |-> <<"tense">>, emotion |-> "worried",
                    healing_path |-> "heavy"]] }

\* the indices random.choice(TASK_POOL) is let to pick
TaskChoices == {1, Len(TASK_POOL)}

\* whether the database raises in save_assessment: "commit" is an error at the
\* commit of the assessment row, after create_user has returned
Faults == {"none", "commit"}

\* the limit query parameter of the history endpoint
Limits == {0, 1, 7}

(***************************************************************************)
(* main.py: endpoints                                                      *)
(***************************************************************************)
Error(code, text) == [status |-> code, body |-> [detail |-> text]]

\* dict.get(key, None)
Get(d, key) == IF key \in DOMAIN d THEN d[key] ELSE None

\* AssessmentRequest: diary_text and conversation_text have min_length=1
RequestValid(request) ==
  Len(request.diary_text) >= 1 /\ Len(request.conversation_text) >= 1

\* AssessmentResponse without the ge / le constraints on anxiety_score
ScoreValid_unconstrained(anxiety_score) == TRUE

\* AssessmentResponse.anxiety_score: Field(..., ge=0.0, le=10.0)
ScoreValid(anxiety_score) == ScoreMin <= anxiety_score /\ anxiety_score <= ScoreMax

\* Commit with the added row written although db.commit() raised
Commit_written(rows, row, fault) == Append(rows, row)

\* db.add(assessment); db.commit(): the row is in the table iff the commit succeeded
Commit(rows, row, fault) == IF fault = "commit" THEN rows ELSE Append(rows, row)

\* the body of assess_anxiety: the response and the store it leaves
AssessOutcome(request, ai, choice, fault) ==
  LET combined_text == request.diary_text \o request.conversation_text
      ai_result == call_qwen_api(combined_text, ai)
      unchanged == [users |-> users, assessments |-> assessments, now |-> now]
  IN
  IF ~RequestValid(request)
    THEN [response |-> Error(422, "request validation"), store |-> unchanged]
  ELSE IF ai_result.type # "object"
    THEN [response |-> Error(500, "TypeError"), store |-> unchanged]
  ELSE IF "anxiety_score" \notin DOMAIN ai_result.members
    THEN [response |-> Error(500, "KeyError anxiety_score"), store |-> unchanged]
  ELSE IF "reason" \notin DOMAIN ai_result.members
    THEN [response |-> Error(500, "KeyError reason"), store |-> unchanged]
  ELSE
    LET anxiety_score == ai_result.members.anxiety_score
        ai_reasoning == ai_result.members.reason
        healing_info == determine_healing_suite(anxiety_score, choice)
        ai_path == Get(ai_result.members, "healing_path")
        healing_path == IF ai_path = None \/ ai_path \notin {"light", "moderate", "severe"}
                          THEN healing_info.level
                          ELSE ai_path
        expression_info == get_nomi_expression(anxiety_score, Get(ai_result.members, "emotion"))
        response ==
          [ anxiety_score   |-> anxiety_score,
            anxiety_level   |-> healing_info.level,
            healing_path    |-> healing_path,
            healing_suite   |-> healing_info.healing_suite,
            nutrients       |-> healing_info.nutrients,
            total_nutrients |-> healing_info.total_nutrients,
            nomi_expression |-> expression_info.file,
            nomi_emotion    |-> expression_info.emotion,
            nomi_state      |-> healing_info.nomi_state,
            task            |-> healing_info.task,
            sequence        |-> healing_info.sequence,
            message         |-> healing_info.message,
            ai_reasoning    |-> ai_reasoning ]
        \* create_user reads the clock only when it adds the row
        users_after == create_user(users, request.user_id, now + 1)
        now_after == IF request.user_id \in DOMAIN users THEN now ELSE now + 1
        row == AssessmentRow(Len(assessments) + 1, request, anxiety_score, healing_info,
                             expression_info, ai_reasoning, now_after + 1)
    IN
    IF ~ScoreValid(anxiety_score)
      THEN [response |-> Error(400, "ValidationError anxiety_score"), store |-> unchanged]
    ELSE IF fault = "commit"
      THEN [response |-> Error(500, "database error"),
            store |-> [users |-> users_after,
                       assessments |-> Commit(assessments, row, fault),
                       now |-> now_after]]
    ELSE [response |-> [status |-> 200, body |-> response],
          store |-> [users |-> users_after,
                     assessments |-> Commit(assessments, row, fault),
                     now |-> now_after + 1]]

\* POST /api/v1/assess
Assess(request, ai, choice, fault) ==
  LET out == AssessOutcome(request, ai, choice, fault)
  IN  \* api_called: a validated request reaches call_qwen_api, which issues
      \* client.chat.completions.create without reading USE_MOCK_MODE
      /\ req' = [op |-> "assess", user_id |-> request.user_id, request |-> request,
                 ai |-> ai, fault |-> fault, api_called |-> RequestValid(request)]
      /\ last' = out.response
      /\ users' = out.store.users
      /\ assessments' = out.store.assessments
      /\ now' = out.store.now
      /\ UNCHANGED MODELSCOPE_API_KEY

\* GET /api/v1/history/{user_id}
History(user_id, limit, fault) ==
  LET history == get_user_history(assessments, user_id, limit)
      stats == get_assessment_stats(assessments, user_id)
  IN  /\ req' = [op |-> "history", user_id |-> user_id, limit |-> limit, fault |-> fault]
      /\ last' = IF fault # "none"
                   THEN Error(500, "database error")
                   ELSE [status |-> 200,
                         body |-> [ user_id        |-> user_id,
                                    total_records  |-> stats.total_assessments,
                                    recent_history |-> [i \in 1..Len(history) |->
                                                          assessment_to_dict(history[i])],
                                    trend          |-> stats.trend ]]
      /\ UNCHANGED <<users, assessments, now, MODELSCOPE_API_KEY>>

\* CumulativeNutrients without .filter(AssessmentHistory.user_id == user_id)
CumulativeNutrients_allusers(rows, user_id) ==
  LET kept == SelectSeq(rows, LAMBDA a : a.total_nutrients # 0)
  IN  SumSeq([i \in 1..Len(kept) |-> kept[i].total_nutrients])

\* sum([record[0] for record in total_nutrients_sum if record[0]])
CumulativeNutrients(rows, user_id) ==
  LET found == FilterUser(rows, user_id)
      kept == SelectSeq(found, LAMBDA a : a.total_nutrients # 0)
  IN  SumSeq([i \in 1..Len(kept) |-> kept[i].total_nutrients])

\* mr_sync without "except HTTPException: raise": the 404 is caught by the
\* generic handler
MrSyncOutcome_swallow(user_id, fault) ==
  LET found == QueryUserDesc(assessments, user_id)
  IN
  IF fault # "none"
    THEN Error(500, "database error")
  ELSE IF found = <<>>
    THEN Error(500, "no assessment records yet")
  ELSE
    LET latest_assessment == Head(found)
    IN  [status |-> 200,
         body |-> [ score              |-> latest_assessment.anxiety_score,
                    expression         |-> latest_assessment.nomi_expression,
                    healing_suggestion |-> <<"breathe together">>,
                    total_nutrients    |-> CumulativeNutrients(assessments, user_id),
                    anxiety_level      |-> latest_assessment.anxiety_level ]]

\* the body of mr_sync
MrSyncOutcome(user_id, fault) ==
  LET found == QueryUserDesc(assessments, user_id)
  IN
  IF fault # "none"
    THEN Error(500, "database error")
  ELSE IF found = <<>>
    THEN Error(404, "no assessment records yet")
  ELSE
    LET latest_assessment == Head(found)
        healing_suggestion ==
          IF latest_assessment.anxiety_level = "light" THEN <<"breathe together">>
          ELSE IF latest_assessment.anxiety_level = "moderate"
            THEN <<"breathe, then comfort Nomi">>
          ELSE <<"breathe, comfort Nomi,",
                 IF latest_assessment.task # None /\ latest_assessment.task # ""
                   THEN latest_assessment.task
                   ELSE "do the behavioral activation task">>
    IN  [status |-> 200,
         body |-> [ score              |-> latest_assessment.anxiety_score,
                    expression         |-> latest_assessment.nomi_expression,
                    healing_suggestion |-> healing_suggestion,
                    total_nutrients    |-> CumulativeNutrients(assessments, user_id),
                    anxiety_level      |-> latest_assessment.anxiety_level ]]

\* GET /api/v1/mr_sync/{user_id}
MrSync(user_id, fault) ==
  /\ req' = [op |-> "mr_sync", user_id |-> user_id, fault |-> fault]
  /\ last' = MrSyncOutcome(user_id, fault)
  /\ UNCHANGED <<users, assessments, now, MODELSCOPE_API_KEY>>

(***************************************************************************)
(* The service                                                             *)
(***************************************************************************)
Init ==
  /\ users = <<>>
  /\ assessments = <<>>
  /\ now = 0
  /\ MODELSCOPE_API_KEY = ConfiguredKey
  /\ req = [op |-> "none"]
  /\ last = [status |-> 0, body |-> <<>>]

Next ==
  \/ \E request \in Requests, ai \in AiReplies, choice \in TaskChoices, fault \in Faults :
       /\ Len(assessments) < MaxAssessments
       /\ Assess(request, ai, choice, fault)
  \/ \E user_id \in UserIds, limit \in Limits, fault \in {"none", "query"} :
       History(user_id, limit, fault)
  \/ \E user_id \in UserIds, fault \in {"none", "query"} :
       MrSync(user_id, fault)

Spec == Init /\ [][Next]_vars

(***************************************************************************)
(* determine_healing_suite on its own: every score of the grid, every      *)
(* pick of random.choice                                                   *)
(***************************************************************************)
SuiteScores == (0 - 500)..10500

InitSuite ==
  /\ users = <<>>
  /\ assessments = <<>>
  /\ now = 0
  /\ MODELSCOPE_API_KEY = ConfiguredKey
  /\ req \in { [op |-> "determine_healing_suite", score |-> s] : s \in SuiteScores }
  /\ last = [status |-> 0, body |-> <<>>]

\* the call returns (status 1) with the dict of determine_healing_suite
DetermineSuite(choice) ==
  /\ last.status = 0
  /\ last' = [status |-> 1, body |-> determine_healing_suite(req.score, choice)]
  /\ UNCHANGED <<users, assessments, now, req, MODELSCOPE_API_KEY>>

NextSuite == \E choice \in 1..Len(TASK_POOL) : DetermineSuite(choice)

SpecSuite == InitSuite /\ [][NextSuite]_vars

SuiteReturned == req.op = "determine_healing_suite" /\ last.status = 1

\* C1: every score in [0,10] gets exactly one level: light iff 0 <= s <= 3.5,
\* moderate iff 3.5 < s <= 7, severe iff 7 < s <= 10.
C1_LevelByThreshold ==
  (SuiteReturned /\ 0 <= req.score /\ req.score <= 10000) =>
     /\ last.body.level \in {"light", "moderate", "severe"}
     /\ (last.body.level = "light"    <=> req.score <= 3500)
     /\ (last.body.level = "moderate" <=> (3500 < req.score /\ req.score <= 7000))
     /\ (last.body.level = "severe"   <=> 7000 < req.score)

\* the boundary 7 has been mapped to the lower tier
C1_Witness ==
  SuiteReturned /\ req.score = 7000 /\ last.body.level = "moderate"

RECURSIVE SumValues(_)
\* the sum of the values of a dict
SumValues(d) ==
  IF DOMAIN d = {}
    THEN 0
    ELSE LET k == CHOOSE x \in DOMAIN d : TRUE
         IN  d[k] + SumValues([x \in DOMAIN d \ {k} |-> d[x]])

\* C2: the suite is cumulative by tier and total_nutrients is 10 / 25 / 50 for
\* light / moderate / severe, the sum of the amounts in the nutrients map.
C2_CumulativeSuite ==
  SuiteReturned =>
     /\ last.body.level = "light" =>
          /\ last.body.healing_suite = <<"breathing">>
          /\ last.body.total_nutrients = 10
     /\ last.body.level = "moderate" =>
          /\ last.body.healing_suite = <<"breathing", "altruistic">>
          /\ last.body.total_nutrients = 25
     /\ last.body.level = "severe" =>
          /\ last.body.healing_suite = <<"breathing", "altruistic", "behavioral_activation">>
          /\ last.body.total_nutrients = 50
     /\ last.body.total_nutrients = SumValues(last.body.nutrients)

\* a severe result carrying all three nutrients
C2_Witness ==
  /\ SuiteReturned
  /\ last.body.level = "severe"
  /\ DOMAIN last.body.nutrients = {"sunlight", "water", "fertilizer"}
  /\ last.body.total_nutrients = 50

(***************************************************************************)
(* Long histories: well-formed AI replies only, so that a user collects    *)
(* more than two trend windows of assessments                              *)
(***************************************************************************)
TrendInputs ==
  { [user_id |-> "u1", score |-> 2000], [user_id |-> "u1", score |-> 3000],
    [user_id |-> "u1", score |-> 5000], [user_id |-> "u2", score |-> 9000] }

TrendRequest(input) ==
  [user_id |-> input.user_id, diary_text |-> <<"jintian">>, conversation_text |-> <<"nihao">>]

TrendReply(input) ==
  [kind |-> "json", type |-> "object",
   members |-> [anxiety_score |-> input.score, reason |-> <<"scored">>]]

NextTrend ==
  \/ \E input \in TrendInputs :
       /\ Len(assessments) < MaxHistory
       /\ Assess(TrendRequest(input), TrendReply(input), 1, "none")
  \/ \E user_id \in UserIds : History(user_id, 7, "none")

SpecTrend == Init /\ [][NextTrend]_vars

\* the positions in the table of the rows of a user
RowsOf(user_id) == { i \in 1..Len(assessments) : assessments[i].user_id = user_id }

\* 1 for the row of the user inserted last, 2 for the one before, ...
Recency(user_id, i) == Cardinality({ j \in RowsOf(user_id) : j >= i })

RECURSIVE ScoreSumAt(_)
ScoreSumAt(positions) ==
  IF positions = {}
    THEN 0
    ELSE LET i == CHOOSE x \in positions : TRUE
         IN  assessments[i].anxiety_score + ScoreSumAt(positions \ {i})

\* the sum of the scores of the user's rows whose recency is in lo..hi
WindowSum(user_id, lo, hi) ==
  ScoreSumAt({ i \in RowsOf(user_id) : Recency(user_id, i) \in lo..hi })

HistoryAnswered == req.op = "history" /\ last.status = 200

\* C3: the trend is no_data without assessments, stable with 1 to 5, and with 6 or
\* more it is improving iff mean(last 3) < mean(3 before) - 1.0, worsening iff
\* mean(last 3) > mean(3 before) + 1.0, stable otherwise; older rows do not count.
C3_Trend ==
  HistoryAnswered =>
    LET n == Cardinality(RowsOf(req.user_id))
        recent == WindowSum(req.user_id, 1, 3)
        before == WindowSum(req.user_id, 4, 6)
        trend == last.body.trend
    IN  /\ n = 0 => trend = "no_data"
        /\ (1 <= n /\ n <= 5) => trend = "stable"
        /\ n >= 6 =>
             /\ trend \in {"improving", "worsening", "stable"}
             /\ (trend = "improving" <=> recent < before - 3000)
             /\ (trend = "worsening" <=> recent > before + 3000)

\* seven assessments of one user, the oldest one outside both windows, improving
C3_Witness ==
  /\ HistoryAnswered
  /\ Cardinality(RowsOf(req.user_id)) = 7
  /\ last.body.trend = "improving"

(***************************************************************************)
(* Properties of the service                                               *)
(***************************************************************************)
\* the last operation was an assess call that passed request validation and met
\* no database error
AssessRan == req.op = "assess" /\ RequestValid(req.request) /\ req.fault = "none"

\* the AI reply is a JSON object with the two members assess_anxiety reads
ReplyUsable(ai) ==
  /\ ai.kind = "json"
  /\ ai.type = "object"
  /\ {"anxiety_score", "reason"} \subseteq DOMAIN ai.members

\* the reply content did not parse into a usable result
ReplyUnusable(ai) == ai.kind \in {"text", "json"} /\ ~ReplyUsable(ai)

\* the row added last
LastRow == assessments[Len(assessments)]

\* C4: whenever the AI reply cannot be parsed into a usable result, the assessment
\* is still stored, with anxiety_score 0.001 and a mock-flagged ai_reasoning.
C4_UnusableReplyStoredAsMock ==
  (AssessRan /\ ReplyUnusable(req.ai)) =>
     /\ Len(assessments) >= 1
     /\ LastRow.user_id = req.user_id
     /\ LastRow.diary_text = req.request.diary_text
     /\ LastRow.anxiety_score = 1
     /\ Head(LastRow.ai_reasoning) = MOCK_FLAG

\* C5: no failure of the external AI step reaches the caller of assess: whether
\* the call raises or its reply yields no usable result, assess answers 200 with
\* the mock result.
C5_AiFailureAbsorbed ==
  (AssessRan /\ (req.ai.kind = "raise" \/ ReplyUnusable(req.ai))) =>
     /\ last.status = 200
     /\ last.body.anxiety_score = 1
     /\ Head(last.body.ai_reasoning) = MOCK_FLAG

\* the AI reply carries a score outside [0,10]
ScoreOutOfRange(ai) ==
  /\ ReplyUsable(ai)
  /\ (ai.members.anxiety_score < 0 \/ ai.members.anxiety_score > 10000)

\* C6: every stored assessment has its score within [0,10], and an assess request
\* whose AI score lies outside [0,10] is rejected before anything is saved.
C6_StoredScoreInRange ==
  [][ /\ \A i \in 1..Len(assessments') :
           0 <= assessments'[i].anxiety_score /\ assessments'[i].anxiety_score <= 10000
      /\ (req'.op = "assess" /\ RequestValid(req'.request) /\ ScoreOutOfRange(req'.ai)) =>
           /\ last'.status \in {400, 500}
           /\ assessments' = assessments
           /\ users' = users ]_vars

\* an out-of-range AI score was answered with a client error while rows are stored
C6_Witness ==
  /\ req.op = "assess"
  /\ ScoreOutOfRange(req.ai)
  /\ req.ai.members.anxiety_score = 10001
  /\ last.status = 400
  /\ Len(assessments) >= 1

\* the level the thresholds give a score
ThresholdLevel(score) ==
  IF score <= 3500 THEN "light" ELSE IF score <= 7000 THEN "moderate" ELSE "severe"

\* the fixed bundle of a level
BundleSuite(level) ==
  IF level = "light" THEN <<"breathing">>
  ELSE IF level = "moderate" THEN <<"breathing", "altruistic">>
  ELSE <<"breathing", "altruistic", "behavioral_activation">>

BundleNutrients(level) ==
  IF level = "light" THEN [sunlight |-> 10]
  ELSE IF level = "moderate" THEN [sunlight |-> 10, water |-> 15]
  ELSE [sunlight |-> 10, water |-> 15, fertilizer |-> 25]

\* C7: every stored assessment is consistent: its level is the threshold level of
\* its own score, its healing_suite and nutrients are the bundle of that level,
\* and its total_nutrients is the sum of the values of its nutrients map.
C7_StoredRowConsistent ==
  \A i \in 1..Len(assessments) :
    LET a == assessments[i]
    IN  /\ a.anxiety_level = ThresholdLevel(a.anxiety_score)
        /\ json_loads(a.healing_suite) = BundleSuite(a.anxiety_level)
        /\ json_loads(a.nutrients) = BundleNutrients(a.anxiety_level)
        /\ a.total_nutrients = SumValues(json_loads(a.nutrients))

\* a row stored as moderate although the AI labelled the request severe
C7_Witness ==
  /\ AssessRan
  /\ last.status = 200
  /\ ReplyUsable(req.ai)
  /\ "healing_path" \in DOMAIN req.ai.members
  /\ req.ai.members.healing_path = "severe"
  /\ LastRow.anxiety_score = 7000
  /\ LastRow.anxiety_level = "moderate"

\* C8: stored data is append-only: every assessment row and user row stays, with
\* its fields unchanged apart from User.last_active, and history and mr_sync
\* change no stored data.
C8_AppendOnly ==
  [][ /\ Len(assessments') >= Len(assessments)
      /\ \A i \in 1..Len(assessments) : assessments'[i] = assessments[i]
      /\ \A u \in DOMAIN users :
           /\ u \in DOMAIN users'
           /\ users'[u].username = users[u].username
           /\ users'[u].created_at = users[u].created_at
      /\ req'.op \in {"history", "mr_sync"} =>
           (users' = users /\ assessments' = assessments) ]_vars

\* a second assessment of a user has been stored after the first
C8_Witness ==
  /\ AssessRan
  /\ last.status = 200
  /\ Len(assessments) = 2
  /\ assessments[1].user_id = assessments[2].user_id

\* C9: mr_sync answers 404 exactly when the user has no stored assessment, the 404
\* reaching the caller as a 404; only other exceptions become a 500.
C9_SyncNotFound ==
  req.op = "mr_sync" =>
     /\ last.status \in {200, 404, 500}
     /\ last.status = 500 <=> req.fault # "none"
     /\ req.fault = "none" => (last.status = 404 <=> RowsOf(req.user_id) = {})

\* a 404 for a user without rows while another user has some
C9_Witness ==
  /\ req.op = "mr_sync"
  /\ last.status = 404
  /\ RowsOf(req.user_id) = {}
  /\ Len(assessments) >= 1

\* C10: mr_sync returns the score, expression and level of the user's most
\* recently created assessment, never of an older one or of another user.
C10_SyncLatest ==
  (req.op = "mr_sync" /\ last.status = 200) =>
     /\ RowsOf(req.user_id) # {}
     /\ LET newest == CHOOSE i \in RowsOf(req.user_id) : \A j \in RowsOf(req.user_id) : j <= i
        IN  /\ last.body.score = assessments[newest].anxiety_score
            /\ last.body.expression = assessments[newest].nomi_expression
            /\ last.body.anxiety_level = assessments[newest].anxiety_level

\* the user has an older assessment with another score, expression and level
C10_Witness ==
  /\ req.op = "mr_sync"
  /\ last.status = 200
  /\ Len(assessments) >= 2
  /\ assessments[1].user_id = req.user_id
  /\ assessments[2].user_id = req.user_id
  /\ assessments[1].anxiety_score # assessments[2].anxiety_score
  /\ assessments[1].nomi_expression # assessments[2].nomi_expression
  /\ assessments[1].anxiety_level # assessments[2].anxiety_level

RECURSIVE NutrientSumAt(_)
\* the sum of total_nutrients over the rows at the given positions
NutrientSumAt(positions) ==
  IF positions = {}
    THEN 0
    ELSE LET i == CHOOSE x \in positions : TRUE
         IN  assessments[i].total_nutrients + NutrientSumAt(positions \ {i})

\* C11: the total_nutrients of mr_sync is the sum of total_nutrients over the user's
\* own assessments; it never decreases and grows by exactly 10, 25 or 50 with each
\* further successful assess of that user.
C11_SyncTotalNutrients ==
  /\ [] ((req.op = "mr_sync" /\ last.status = 200) =>
           last.body.total_nutrients = NutrientSumAt(RowsOf(req.user_id)))
  /\ [][ \A u \in UserIds :
              LET grown == CumulativeNutrients(assessments', u)
                             - CumulativeNutrients(assessments, u)
              IN  IF req'.op = "assess" /\ last'.status = 200 /\ req'.user_id = u
                    THEN grown \in {10, 25, 50}
                    ELSE grown = 0 ]_vars

\* two assessments of the user, a light and a moderate one: 10 + 25
C11_Witness ==
  /\ req.op = "mr_sync"
  /\ last.status = 200
  /\ Cardinality(RowsOf(req.user_id)) = 2
  /\ assessments[1].total_nutrients = 10
  /\ assessments[2].total_nutrients = 25
  /\ last.body.total_nutrients = 35

(***************************************************************************)
(* Paged histories: the long histories again, read with a short page and   *)
(* with the default page                                                   *)
(***************************************************************************)
PageInputs ==
  { [user_id |-> "u1", score |-> 2000], [user_id |-> "u1", score |-> 5000],
    [user_id |-> "u2", score |-> 9000] }

\* the limit query parameter: a short page and the default
PageLimits == {2, 7}

NextPage ==
  \/ \E input \in PageInputs :
       /\ Len(assessments) < MaxHistory
       /\ Assess(TrendRequest(input), TrendReply(input), 1, "none")
  \/ \E user_id \in UserIds, limit \in PageLimits : History(user_id, limit, "none")

SpecPage == Init /\ [][NextPage]_vars

\* the trend of the two windows of three of a user's rows, in insertion order
WindowTrend(user_id) ==
  LET n == Cardinality(RowsOf(user_id))
      recent == WindowSum(user_id, 1, 3)
      before == WindowSum(user_id, 4, 6)
  IN  IF n = 0 THEN "no_data"
      ELSE IF n < 6 THEN "stable"
      ELSE IF recent < before - 3000 THEN "improving"
      ELSE IF recent > before + 3000 THEN "worsening"
      ELSE "stable"

\* C12: for every limit >= 1 the history operation returns at most limit records,
\* all of the requested user, from the most recently created to the oldest, and
\* they are the user's most recent ones; total_records and the trend are computed
\* over all of the user's records, whatever the limit.
C12_HistoryPage ==
  (HistoryAnswered /\ req.limit >= 1) =>
    LET n == Cardinality(RowsOf(req.user_id))
        page == last.body.recent_history
    IN  /\ Len(page) = IF req.limit < n THEN req.limit ELSE n
        /\ \A k \in 1..Len(page) :
             /\ page[k].user_id = req.user_id
             /\ page[k].id \in RowsOf(req.user_id)
             /\ Recency(req.user_id, page[k].id) = k
             /\ page[k].anxiety_score = assessments[page[k].id].anxiety_score
        /\ last.body.total_records = n
        /\ last.body.trend = WindowTrend(req.user_id)

\* a page of two out of six assessments, another user's row in the table, and a
\* trend that only the rows beyond the page explain
C12_Witness ==
  /\ HistoryAnswered
  /\ req.limit = 2
  /\ Cardinality(RowsOf(req.user_id)) = 6
  /\ Len(assessments) = 7
  /\ Len(last.body.recent_history) = 2
  /\ last.body.total_records = 6
  /\ last.body.trend = "worsening"

(***************************************************************************)
(* emotion_mapping.py on its own: the score mapping on every score of the  *)
(* grid, get_nomi_expression on every label at the range boundaries        *)
(***************************************************************************)
\* the lower and upper bounds of the range table, and a score inside the first
NomiScores == {0, 1000, 2000, 4000, 5500, 7000, 8000, 9000, 10000}

\* no label, an empty one, every label of the table, and one that is not in it
NomiLabels == {None, "", "worried"} \cup DOMAIN AI_EMOTION_LABELS

InitEmotion ==
  /\ users = <<>>
  /\ assessments = <<>>
  /\ now = 0
  /\ MODELSCOPE_API_KEY = ConfiguredKey
  /\ req \in { [op |-> "get_emotion_from_anxiety_score", score |-> s] : s \in SuiteScores }
             \cup { [op |-> "get_nomi_expression", score |-> s, ai_emotion |-> l] :
                      s \in NomiScores, l \in NomiLabels }
  /\ last = [status |-> 0, body |-> <<>>]

\* the call returns (status 1) with the dict of get_emotion_from_anxiety_score
EmotionFromScore ==
  /\ req.op = "get_emotion_from_anxiety_score"
  /\ last.status = 0
  /\ last' = [status |-> 1, body |-> get_emotion_from_anxiety_score(req.score)]
  /\ UNCHANGED <<users, assessments, now, req, MODELSCOPE_API_KEY>>

\* the call returns (status 1) with the dict of get_nomi_expression
NomiExpression ==
  /\ req.op = "get_nomi_expression"
  /\ last.status = 0
  /\ last' = [status |-> 1, body |-> get_nomi_expression(req.score, req.ai_emotion)]
  /\ UNCHANGED <<users, assessments, now, req, MODELSCOPE_API_KEY>>

NextEmotion == EmotionFromScore \/ NomiExpression

SpecEmotion == InitEmotion /\ [][NextEmotion]_vars

\* the table entries whose half-open range holds the score
MatchingRanges(score) ==
  { i \in 1..Len(ANXIETY_BASED_EMOTIONS) :
      ANXIETY_BASED_EMOTIONS[i].min <= score /\ score < ANXIETY_BASED_EMOTIONS[i].max }

\* the file the range table gives for the range that starts at the score
FileAtBoundary ==
  (2000 :> "happy.png") @@ (4000 :> "ok.png") @@ (5500 :> "thinking.png")
    @@ (7000 :> "question.png") @@ (8000 :> "sad.png") @@ (9000 :> "cpu_burned.png")
    @@ (10000 :> "cpu_burned.png")

\* C13: for every score in [0,10] exactly one range of the table matches, the lower
\* bound of a range belonging to it, and get_emotion_from_anxiety_score returns the
\* entry of that range, never its neutral default; so at 2, 4, 5.5, 7, 8, 9 and 10.
C13_RangesCoverScores ==
  (req.op = "get_emotion_from_anxiety_score" /\ last.status = 1
     /\ 0 <= req.score /\ req.score <= 10000) =>
    /\ Cardinality(MatchingRanges(req.score)) = 1
    /\ \A i \in MatchingRanges(req.score) : last.body = EmotionInfo(i)
    /\ last.body # DefaultEmotion
    /\ req.score \in DOMAIN FileAtBoundary => last.body.file = FileAtBoundary[req.score]

\* the boundary 5.5 has got the thinking entry of the table, not the default
C13_Witness ==
  /\ req.op = "get_emotion_from_anxiety_score" /\ last.status = 1
  /\ req.score = 5500
  /\ last.body.file = "thinking.png"
  /\ last.body.description = <<"sikao zhongli, qingwei mimang">>

\* C14: whenever the AI label is one of the labels of AI_EMOTION_LABELS,
\* get_nomi_expression returns the file mapped to that label, whatever the score;
\* the score mapping is used only when the label is absent or unrecognized.
C14_LabelHasPriority ==
  (req.op = "get_nomi_expression" /\ last.status = 1) =>
    IF req.ai_emotion \in DOMAIN AI_EMOTION_LABELS
      THEN /\ last.body.file = AI_EMOTION_LABELS[req.ai_emotion]
           /\ last.body.emotion = req.ai_emotion
      ELSE last.body = get_emotion_from_anxiety_score(req.score)

\* C15: in every successful assess response healing_path equals anxiety_level, the
\* tier determined by the anxiety score.
C15_PathEqualsLevel ==
  (AssessRan /\ last.status = 200) =>
    /\ last.body.healing_path = last.body.anxiety_level
    /\ last.body.healing_path = LevelOf(last.body.anxiety_score)

\* the steps of the execution sequence that stand for a mode
StepsOfMode ==
  [ breathing             |-> {"breathing", "breathing_first"},
    altruistic            |-> {"then_altruistic"},
    behavioral_activation |-> {"finally_task"} ]

\* C16: in every result of determine_healing_suite the task is non-null iff the
\* level is severe, a non-null task is an element of TASK_POOL, and the sequence
\* has one step per mode of the healing suite, in the order breathing, altruistic,
\* task.
C16_TaskOnlyWhenSevere ==
  SuiteReturned =>
    /\ (last.body.task # None) <=> (last.body.level = "severe")
    /\ (last.body.task # None) <=> (req.score > 7000)
    /\ last.body.task # None => \E i \in 1..Len(TASK_POOL) : TASK_POOL[i] = last.body.task
    /\ Len(last.body.sequence) = Len(last.body.healing_suite)
    /\ \A k \in 1..Len(last.body.sequence) :
         last.body.sequence[k] \in StepsOfMode[last.body.healing_suite[k]]

\* just above the threshold 7 the last task of the pool has been drawn
C16_Witness ==
  /\ SuiteReturned
  /\ req.score = 7001
  /\ last.body.level = "severe"
  /\ last.body.task = TASK_POOL[Len(TASK_POOL)]
  /\ last.body.sequence = <<"breathing_first", "then_altruistic", "finally_task">>

\* the number of rows of a user in a table
CountOf(rows, user_id) == Len(FilterUser(rows, user_id))

InitMock ==
  /\ users = <<>>
  /\ assessments = <<>>
  /\ now = 0
  /\ MODELSCOPE_API_KEY = ""
  /\ req = [op |-> "none"]
  /\ last = [status |-> 0, body |-> <<>>]

\* GET /health
health_check ==
  /\ req' = [op |-> "health"]
  /\ last' = [status |-> 200,
              body |-> [ status     |-> "healthy",
                         message    |-> <<"All systems operational">>,
                         model_mode |-> IF USE_MOCK_MODE
                                          THEN "Mock Mode (kaifa ceshi)"
                                          ELSE "Production Mode (zhenshi API)" ]]
  /\ UNCHANGED <<users, assessments, now, MODELSCOPE_API_KEY>>

NextMock ==
  \/ \E request \in Requests, ai \in AiReplies, choice \in TaskChoices :
       /\ Len(assessments) < MaxAssessments
       /\ Assess(request, ai, choice, "none")
  \/ health_check

SpecMock == InitMock /\ [][NextMock]_vars

\* C17: in mock mode (no API key, the mode the health endpoint reports) an assess
\* request does not call the external API and its result is the mock assessment.
C17_MockModeSkipsApi ==
  /\ (req.op = "health" /\ MODELSCOPE_API_KEY = "") =>
        last.body.model_mode = "Mock Mode (kaifa ceshi)"
  /\ (USE_MOCK_MODE /\ req.op = "assess") =>
        /\ ~req.api_called
        /\ last.status = 200 =>
             /\ last.body.anxiety_score = MockScore
             /\ Head(last.body.ai_reasoning) = MOCK_FLAG

(***************************************************************************)
(* Two server processes on the same mindnest.db, each handling one assess  *)
(* request; a step is one database statement of save_assessment. req and   *)
(* last hold the request in flight and the response of each process. (In   *)
(* one process the handlers are coroutines without an await and run one    *)
(* after the other.)                                                       *)
(***************************************************************************)
Workers == {"w1", "w2"}

RaceInputs ==
  { [user_id |-> "u1", score |-> 2000], [user_id |-> "u1", score |-> 9000],
    [user_id |-> "u2", score |-> 5000] }

InitRace ==
  /\ users = <<>>
  /\ assessments = <<>>
  /\ now = 0
  /\ MODELSCOPE_API_KEY = ConfiguredKey
  /\ req = [w \in Workers |-> [op |-> "none", pc |-> "idle"]]
  /\ last = [w \in Workers |-> [status |-> 0, body |-> <<>>]]

\* assess_anxiety up to the call of save_assessment: the response is built
RaceBegin(w, input) ==
  /\ req[w].pc = "idle"
  /\ req' = [req EXCEPT ![w] = [op |-> "assess", pc |-> "query_user",
                                user_id |-> input.user_id, input |-> input]]
  /\ UNCHANGED <<users, assessments, now, last, MODELSCOPE_API_KEY>>

\* create_user: user = db.query(User).filter(User.user_id == user_id).first()
RaceQueryUser(w) ==
  /\ req[w].pc = "query_user"
  /\ req' = [req EXCEPT ![w].pc = IF req[w].user_id \in DOMAIN users
                                    THEN "add_assessment" ELSE "add_user"]
  /\ UNCHANGED <<users, assessments, now, last, MODELSCOPE_API_KEY>>

\* create_user: db.add(user); db.commit(). user_id is the primary key: the INSERT
\* of a key that is in the table raises IntegrityError, which assess_anxiety
\* answers with 500
RaceAddUser(w) ==
  /\ req[w].pc = "add_user"
  /\ IF req[w].user_id \in DOMAIN users
       THEN /\ req' = [req EXCEPT ![w].pc = "done"]
            /\ last' = [last EXCEPT ![w] = Error(500, "IntegrityError users.user_id")]
            /\ UNCHANGED <<users, now>>
       ELSE /\ req' = [req EXCEPT ![w].pc = "add_assessment"]
            /\ users' = create_user(users, req[w].user_id, now + 1)
            /\ now' = now + 1
            /\ UNCHANGED last
  /\ UNCHANGED <<assessments, MODELSCOPE_API_KEY>>

\* save_assessment: db.add(assessment); db.commit(), and the response is returned
RaceAddAssessment(w) ==
  /\ req[w].pc = "add_assessment"
  /\ LET request == TrendRequest(req[w].input)
         out == AssessOutcome(request, TrendReply(req[w].input), 1, "none")
         healing_info == determine_healing_suite(req[w].input.score, 1)
         expression_info == get_nomi_expression(req[w].input.score, None)
         row == AssessmentRow(Len(assessments) + 1, request, req[w].input.score,
                              healing_info, expression_info, <<"scored">>, now + 1)
     IN  /\ assessments' = Commit(assessments, row, "none")
         /\ last' = [last EXCEPT ![w] = out.response]
  /\ now' = now + 1
  /\ req' = [req EXCEPT ![w].pc = "done"]
  /\ UNCHANGED <<users, MODELSCOPE_API_KEY>>

NextRace ==
  \E w \in Workers :
    \/ \E input \in RaceInputs : RaceBegin(w, input)
    \/ RaceQueryUser(w)
    \/ RaceAddUser(w)
    \/ RaceAddAssessment(w)

SpecRace == InitRace /\ [][NextRace]_vars

====
